---------------------------- MODULE Spec2Model ----------------------------
(***************************************************************************)
(* Required Return Calculator (Gordon Growth Model): the observable state  *)
(* store, the validator, the calculation engine and the debounced update   *)
(* orchestrator of src/return-modules.                                     *)
(*                                                                         *)
(* JavaScript numbers are modelled as decimal floating-point values with   *)
(* Digits significant digits and round-to-nearest-even after every         *)
(* operation (IEEE-754 doubles have 53 significant bits; the exponent is   *)
(* unbounded here).  NaN and the infinities are values of the model.       *)
(***************************************************************************)
EXTENDS Integers, Sequences, FiniteSets, TLC

(***************************************************************************)
(* Numbers                                                                 *)
(***************************************************************************)

\* Significant decimal digits kept by every arithmetic operation.
Digits == 5

RECURSIVE Pow10(_)
Pow10(n) == IF n <= 0 THEN 1 ELSE 10 * Pow10(n - 1)

Lim == Pow10(Digits)

Abs(i) == IF i < 0 THEN -i ELSE i

Sgn(i) == IF i < 0 THEN -1 ELSE IF i > 0 THEN 1 ELSE 0

\* A number is [k, m, e]: kind "num" is m * 10^e with m = 0 /\ e = 0 or
\* Lim/10 <= |m| < Lim; kind "inf" is +/-Infinity by the sign of m.
NaN == [k |-> "nan", m |-> 0, e |-> 0]

Inf(s) == [k |-> "inf", m |-> s, e |-> 0]

Zero == [k |-> "num", m |-> 0, e |-> 0]

IsNaN(x) == x.k = "nan"

\* Number of decimal digits of a > 0 beyond Digits.
RECURSIVE Excess(_)
Excess(a) == IF a < Lim THEN 0 ELSE 1 + Excess(a \div 10)

\* Digits missing from 0 < a < Lim/10 to be normal.
RECURSIVE Missing(_)
Missing(a) == IF a * 10 >= Lim THEN 0 ELSE 1 + Missing(a * 10)

\* Round the magnitude a (+ a nonzero fraction below it when sticky) times
\* 10^e with sign s to Digits digits, ties to even.  When sticky, a >= Lim.
Round(s, a, e, sticky) ==
  IF a = 0 THEN Zero
  ELSE IF a < Lim
  THEN LET j == Missing(a)
       IN  [k |-> "num", m |-> s * a * Pow10(j), e |-> e - j]
  ELSE LET j   == Excess(a)
           p   == Pow10(j)
           q   == a \div p
           r   == a % p
           up  == \/ r > p - r
                  \/ r = p - r /\ (sticky \/ q % 2 = 1)
           q1  == IF up THEN q + 1 ELSE q
       IN  IF q1 >= Lim
           THEN [k |-> "num", m |-> s * (q1 \div 10), e |-> e + j + 1]
           ELSE [k |-> "num", m |-> s * q1, e |-> e + j]

\* The number m * 10^e of a numeric literal.
Num(m, e) == Round(Sgn(m), Abs(m), e, FALSE)

One == Num(1, 0)

Hundred == Num(100, 0)

Neg(x) == IF x.k = "nan" THEN x ELSE [x EXCEPT !.m = -x.m]

\* x + y
Add(x, y) ==
  IF x.k = "nan" \/ y.k = "nan" THEN NaN
  ELSE IF x.k = "inf" \/ y.k = "inf"
  THEN IF x.k = "inf" /\ y.k = "inf"
       THEN IF x.m = y.m THEN x ELSE NaN
       ELSE IF x.k = "inf" THEN x ELSE y
  ELSE IF x.m = 0 THEN y
  ELSE IF y.m = 0 THEN x
  ELSE LET big   == IF x.e >= y.e THEN x ELSE y
           small == IF x.e >= y.e THEN y ELSE x
           diff  == big.e - small.e
       IN  IF diff > Digits + 1 THEN big
           ELSE LET X      == Abs(big.m) * 1000
                    shift  == diff - 3
                    Y      == IF shift <= 0
                              THEN Abs(small.m) * Pow10(-shift)
                              ELSE Abs(small.m) \div Pow10(shift)
                    sticky == shift > 0 /\ Abs(small.m) % Pow10(shift) # 0
                    same   == Sgn(big.m) = Sgn(small.m)
                    S      == IF same THEN X + Y
                              ELSE IF sticky THEN X - Y - 1 ELSE X - Y
                IN  IF S >= 0
                    THEN Round(Sgn(big.m), S, big.e - 3, sticky)
                    ELSE Round(Sgn(small.m), -S, big.e - 3, FALSE)

\* x * y
Mul(x, y) ==
  IF x.k = "nan" \/ y.k = "nan" THEN NaN
  ELSE IF x.k = "inf" \/ y.k = "inf"
  THEN IF x.m = 0 \/ y.m = 0 THEN NaN ELSE Inf(Sgn(x.m) * Sgn(y.m))
  ELSE IF x.m = 0 \/ y.m = 0 THEN Zero
  ELSE LET a  == Abs(x.m)
           b  == Abs(y.m)
           a1 == a \div 1000
           a0 == a % 1000
           b1 == b \div 1000
           b0 == b % 1000
           L  == (a1 * b0 + a0 * b1) * 1000 + a0 * b0
           Hi == a1 * b1 + L \div 1000000
           Lo == L % 1000000
       IN  Round(Sgn(x.m) * Sgn(y.m), Hi * 1000 + Lo \div 1000,
                 x.e + y.e + 3, Lo % 1000 # 0)

\* Long division: n more quotient digits of r / b appended to q.
RECURSIVE DivDigits(_, _, _, _)
DivDigits(q, r, b, n) ==
  IF n = 0 THEN <<q, r>>
  ELSE DivDigits(q * 10 + (r * 10) \div b, (r * 10) % b, b, n - 1)

\* x / y
Div(x, y) ==
  IF x.k = "nan" \/ y.k = "nan" THEN NaN
  ELSE IF x.k = "inf"
  THEN IF y.k = "inf" THEN NaN
       ELSE Inf(x.m * (IF y.m < 0 THEN -1 ELSE 1))
  ELSE IF y.k = "inf" THEN Zero
  ELSE IF y.m = 0
  THEN IF x.m = 0 THEN NaN ELSE Inf(Sgn(x.m))
  ELSE IF x.m = 0 THEN Zero
  ELSE LET a  == Abs(x.m)
           b  == Abs(y.m)
           qr == DivDigits(a \div b, a % b, b, Digits + 1)
       IN  Round(Sgn(x.m) * Sgn(y.m), qr[1], x.e - y.e - (Digits + 1),
                 qr[2] # 0)

\* x < y
Lt(x, y) ==
  IF x.k = "nan" \/ y.k = "nan" THEN FALSE
  ELSE IF x.k = "inf" THEN x.m < 0 /\ ~(y.k = "inf" /\ y.m < 0)
  ELSE IF y.k = "inf" THEN y.m > 0
  ELSE IF Sgn(x.m) # Sgn(y.m) THEN Sgn(x.m) < Sgn(y.m)
  ELSE IF x.m = 0 THEN FALSE
  ELSE IF x.m > 0
  THEN x.e < y.e \/ (x.e = y.e /\ x.m < y.m)
  ELSE x.e > y.e \/ (x.e = y.e /\ x.m < y.m)

\* x > y
Gt(x, y) == Lt(y, x)

\* x >= y
Ge(x, y) == x.k # "nan" /\ y.k # "nan" /\ ~Lt(x, y)

\* x <= y
Le(x, y) == Ge(y, x)

\* Math.pow(x, n) for an integer n >= 0
RECURSIVE Pow(_, _)
Pow(x, n) == IF n = 0 THEN One ELSE Mul(Pow(x, n - 1), x)

(***************************************************************************)
(* Values shared by the modules                                            *)
(***************************************************************************)

\* JavaScript null / undefined.
Null == [null |-> TRUE]

\* const name = value; body -- the value is computed once and named in body.
Let(value, Body(_)) == Body(value)

\* A JavaScript string value.
Str(s) == [str |-> s]

IsNumber(x) == x # Null /\ "k" \in DOMAIN x

(***************************************************************************)
(* utils.js: parseFloat as used by the debounced update, and debounce      *)
(***************************************************************************)

DigitChars == {"0", "1", "2", "3", "4", "5", "6", "7", "8", "9"}

DigitVal(c) ==
  CASE c = "0" -> 0 [] c = "1" -> 1 [] c = "2" -> 2 [] c = "3" -> 3
    [] c = "4" -> 4 [] c = "5" -> 5 [] c = "6" -> 6 [] c = "7" -> 7
    [] c = "8" -> 8 [] c = "9" -> 9

\* Length of the longest run of digits of raw starting at position i.
RECURSIVE DigitRun(_, _)
DigitRun(raw, i) ==
  IF i <= Len(raw) /\ raw[i] \in DigitChars THEN 1 + DigitRun(raw, i + 1) ELSE 0

\* The integer written by the n digits of raw starting at position i.
RECURSIVE DigitsValue(_, _, _)
DigitsValue(raw, i, n) ==
  IF n = 0 THEN 0
  ELSE DigitsValue(raw, i, n - 1) * 10 + DigitVal(raw[i + n - 1])

\* parseFloat(raw) for a raw text of signs, digits, "." and other characters
\* (a sequence of one-character strings): the longest numeric prefix
\* [+-]digits[.digits] is converted, the rest is ignored, and NaN results
\* when no digit can be read.
ParseFloat(raw) ==
  LET signed == Len(raw) >= 1 /\ raw[1] \in {"-", "+"}
      s      == IF signed /\ raw[1] = "-" THEN -1 ELSE 1
      i      == IF signed THEN 2 ELSE 1
      nInt   == DigitRun(raw, i)
      dot    == i + nInt <= Len(raw) /\ raw[i + nInt] = "."
      nFrac  == IF dot THEN DigitRun(raw, i + nInt + 1) ELSE 0
      mant   == DigitsValue(raw, i, nInt) * Pow10(nFrac)
                  + DigitsValue(raw, i + nInt + 1, nFrac)
  IN  IF nInt + nFrac = 0 THEN NaN
      ELSE IF mant = 0 THEN Zero
      ELSE Round(s, mant, -nFrac, FALSE)

\* debounce(fn, wait = 300): the wait the input listeners pass.
DebounceWait == 300

(***************************************************************************)
(* utils.js (validation module)                                            *)
(***************************************************************************)

Fields == {"marketPrice", "currentDividend", "growthRate"}

\* Object.keys(VALIDATION_RULES), in insertion order.
RuleKeys == <<"marketPrice", "currentDividend", "growthRate">>

VALIDATION_RULES ==
  [marketPrice |->
     [min |-> 1, max |-> 500, required |-> TRUE,
      label |-> "Market price", prefix |-> "USD", unit |-> ""],
   currentDividend |->
     [min |-> 0, max |-> 50, required |-> TRUE,
      label |-> "Current dividend", prefix |-> "USD", unit |-> ""],
   growthRate |->
     [min |-> 0, max |-> 25, required |-> TRUE,
      label |-> "Growth rate", prefix |-> "", unit |-> "%"]]

\* `${prefix} ${n}` when the rule has a prefix, `${n}${unit || ''}` otherwise.
Display(rules, n) ==
  IF rules.prefix # "" THEN rules.prefix \o " " \o ToString(n)
  ELSE ToString(n) \o rules.unit

RangeMessage(rules) ==
  Str(rules.label \o " must be between " \o Display(rules, rules.min)
        \o " and " \o Display(rules, rules.max))

RequiredMessage(rules) == Str(rules.label \o " is required")

\* value === '' || value == null || isNaN(value)
IsMissing(value) ==
  \/ value = Str("")
  \/ value = Null
  \/ IsNumber(value) /\ IsNaN(value)

\* ValidateField with both bounds exclusive (<= and >= for < and >).
ValidateFieldExclusive(field, value) ==
  IF field \notin DOMAIN VALIDATION_RULES THEN Null
  ELSE LET rules == VALIDATION_RULES[field]
       IN  IF rules.required /\ IsMissing(value) THEN RequiredMessage(rules)
           ELSE IF Le(value, Num(rules.min, 0)) THEN RangeMessage(rules)
           ELSE IF Ge(value, Num(rules.max, 0)) THEN RangeMessage(rules)
           ELSE Null

\* ValidateField without the check against rules.min.
ValidateFieldNoMin(field, value) ==
  IF field \notin DOMAIN VALIDATION_RULES THEN Null
  ELSE LET rules == VALIDATION_RULES[field]
       IN  IF rules.required /\ IsMissing(value) THEN RequiredMessage(rules)
           ELSE IF Gt(value, Num(rules.max, 0)) THEN RangeMessage(rules)
           ELSE Null

\* ValidateField without the required check.
ValidateFieldNoRequired(field, value) ==
  IF field \notin DOMAIN VALIDATION_RULES THEN Null
  ELSE LET rules == VALIDATION_RULES[field]
       IN  IF Lt(value, Num(rules.min, 0)) THEN RangeMessage(rules)
           ELSE IF Gt(value, Num(rules.max, 0)) THEN RangeMessage(rules)
           ELSE Null

ValidateField(field, value) ==
  IF field \notin DOMAIN VALIDATION_RULES THEN Null
  ELSE LET rules == VALIDATION_RULES[field]
       IN  IF rules.required /\ IsMissing(value) THEN RequiredMessage(rules)
           ELSE IF Lt(value, Num(rules.min, 0)) THEN RangeMessage(rules)
           ELSE IF Gt(value, Num(rules.max, 0)) THEN RangeMessage(rules)
           ELSE Null

\* errors[field] = error
SetKey(obj, key, val) ==
  [x \in DOMAIN obj \cup {key} |-> IF x = key THEN val ELSE obj[x]]

\* delete errors[field]
DeleteKey(obj, key) == [x \in DOMAIN obj \ {key} |-> obj[x]]

\* The forEach of validateAllInputs over the first n keys of order.
RECURSIVE ValidateKeys(_, _, _)
ValidateKeys(order, inputs, n) ==
  IF n = 0 THEN <<>>
  ELSE LET errors == ValidateKeys(order, inputs, n - 1)
           field  == order[n]
           error  == ValidateField(field,
                       IF field \in DOMAIN inputs THEN inputs[field] ELSE Null)
       IN  IF error # Null THEN SetKey(errors, field, error) ELSE errors

\* ValidateAllInputs that stops at the first field in error.
RECURSIVE ValidateKeysFirstOnly(_, _, _)
ValidateKeysFirstOnly(order, inputs, n) ==
  IF n = 0 THEN <<>>
  ELSE LET errors == ValidateKeysFirstOnly(order, inputs, n - 1)
           field  == order[n]
           error  == ValidateField(field,
                       IF field \in DOMAIN inputs THEN inputs[field] ELSE Null)
       IN  IF error # Null /\ DOMAIN errors = {}
           THEN SetKey(errors, field, error) ELSE errors

ValidateAllInputsFirstOnly(inputs) ==
  ValidateKeysFirstOnly(RuleKeys, inputs, Len(RuleKeys))

ValidateAllInputs(inputs) == ValidateKeys(RuleKeys, inputs, Len(RuleKeys))

HasErrors(errors) == Cardinality(DOMAIN errors) > 0

(***************************************************************************)
(* state.js (calculations module)                                          *)
(***************************************************************************)

\* CalculateRequiredReturn with the yield inverted: marketPrice / d1.
CalculateRequiredReturnInverted(params) ==
  Let(Div(params.growthRate, Hundred), LAMBDA g :
  Let(Mul(params.currentDividend, Add(One, g)), LAMBDA d1 :
  Let(Div(params.marketPrice, d1), LAMBDA dividendYield :
  Let(Add(dividendYield, g), LAMBDA requiredReturn :
    [requiredReturn        |-> Mul(requiredReturn, Hundred),
     requiredReturnDecimal |-> requiredReturn,
     d1                    |-> d1,
     dividendYield         |-> Mul(dividendYield, Hundred),
     dividendYieldDecimal  |-> dividendYield,
     growthRateDecimal     |-> g,
     isValid               |-> Gt(requiredReturn, Zero)
                                 /\ Lt(g, requiredReturn)]))))

\* CalculateRequiredReturn accepting g = requiredReturn (g <= requiredReturn).
CalculateRequiredReturnLenient(params) ==
  Let(Div(params.growthRate, Hundred), LAMBDA g :
  Let(Mul(params.currentDividend, Add(One, g)), LAMBDA d1 :
  Let(Div(d1, params.marketPrice), LAMBDA dividendYield :
  Let(Add(dividendYield, g), LAMBDA requiredReturn :
    [requiredReturn        |-> Mul(requiredReturn, Hundred),
     requiredReturnDecimal |-> requiredReturn,
     d1                    |-> d1,
     dividendYield         |-> Mul(dividendYield, Hundred),
     dividendYieldDecimal  |-> dividendYield,
     growthRateDecimal     |-> g,
     isValid               |-> Gt(requiredReturn, Zero)
                                 /\ Le(g, requiredReturn)]))))

\* CalculateRequiredReturn whose isValid only asks for requiredReturn > 0.
CalculateRequiredReturnNoGrowthCheck(params) ==
  Let(Div(params.growthRate, Hundred), LAMBDA g :
  Let(Mul(params.currentDividend, Add(One, g)), LAMBDA d1 :
  Let(Div(d1, params.marketPrice), LAMBDA dividendYield :
  Let(Add(dividendYield, g), LAMBDA requiredReturn :
    [requiredReturn        |-> Mul(requiredReturn, Hundred),
     requiredReturnDecimal |-> requiredReturn,
     d1                    |-> d1,
     dividendYield         |-> Mul(dividendYield, Hundred),
     dividendYieldDecimal  |-> dividendYield,
     growthRateDecimal     |-> g,
     isValid               |-> Gt(requiredReturn, Zero)]))))

CalculateRequiredReturn(params) ==
  Let(Div(params.growthRate, Hundred), LAMBDA g :
  Let(Mul(params.currentDividend, Add(One, g)), LAMBDA d1 :
  Let(Div(d1, params.marketPrice), LAMBDA dividendYield :
  Let(Add(dividendYield, g), LAMBDA requiredReturn :
    [requiredReturn        |-> Mul(requiredReturn, Hundred),
     requiredReturnDecimal |-> requiredReturn,
     d1                    |-> d1,
     dividendYield         |-> Mul(dividendYield, Hundred),
     dividendYieldDecimal  |-> dividendYield,
     growthRateDecimal     |-> g,
     isValid               |-> Gt(requiredReturn, Zero)
                                 /\ Lt(g, requiredReturn)]))))

\* years = 10 when the caller passes none.
DefaultYears == 10

\* CashFlowLoop compounding from the next-period exponent year - 1.
RECURSIVE CashFlowLoopLagged(_, _)
CashFlowLoopLagged(params, year) ==
  IF year = 0
  THEN [cashFlows |->
          <<[year               |-> 0,
             dividend           |-> Zero,
             investment         |-> Neg(params.marketPrice),
             totalCashFlow      |-> Neg(params.marketPrice),
             cumulativeCashFlow |-> Neg(params.marketPrice)]>>,
        cumulativeTotal |-> Neg(params.marketPrice)]
  ELSE Let(CashFlowLoopLagged(params, year - 1), LAMBDA prev :
       Let(Mul(params.currentDividend,
               Pow(Add(One, params.growthRateDecimal), year - 1)),
           LAMBDA dividend :
       Let(Add(prev.cumulativeTotal, dividend), LAMBDA cumulativeTotal :
         [cashFlows |->
            Append(prev.cashFlows,
                   [year               |-> year,
                    dividend           |-> dividend,
                    investment         |-> Zero,
                    totalCashFlow      |-> dividend,
                    cumulativeCashFlow |-> cumulativeTotal]),
          cumulativeTotal |-> cumulativeTotal])))

\* The loop of generateCashFlows after `year` iterations: the points pushed
\* so far and the running cumulativeTotal.
RECURSIVE CashFlowLoop(_, _)
CashFlowLoop(params, year) ==
  IF year = 0
  THEN [cashFlows |->
          <<[year               |-> 0,
             dividend           |-> Zero,
             investment         |-> Neg(params.marketPrice),
             totalCashFlow      |-> Neg(params.marketPrice),
             cumulativeCashFlow |-> Neg(params.marketPrice)]>>,
        cumulativeTotal |-> Neg(params.marketPrice)]
  ELSE Let(CashFlowLoop(params, year - 1), LAMBDA prev :
       Let(Mul(params.currentDividend,
               Pow(Add(One, params.growthRateDecimal), year)), LAMBDA dividend :
       Let(Add(prev.cumulativeTotal, dividend), LAMBDA cumulativeTotal :
         [cashFlows |->
            Append(prev.cashFlows,
                   [year               |-> year,
                    dividend           |-> dividend,
                    investment         |-> Zero,
                    totalCashFlow      |-> dividend,
                    cumulativeCashFlow |-> cumulativeTotal]),
          cumulativeTotal |-> cumulativeTotal])))

\* GenerateCashFlows whose loop stops one year early (year < years).
GenerateCashFlowsOneShort(params) ==
  LET years == IF "years" \in DOMAIN params THEN params.years
               ELSE DefaultYears
  IN  CashFlowLoop(params, IF years < 1 THEN 0 ELSE years - 1).cashFlows

\* GenerateCashFlows storing each year's own cash flow as its cumulative value.
GenerateCashFlowsNoAccumulate(params) ==
  LET years == IF "years" \in DOMAIN params THEN params.years
               ELSE DefaultYears
  IN  Let(CashFlowLoop(params, IF years < 0 THEN 0 ELSE years).cashFlows,
          LAMBDA flows :
            [i \in 1..Len(flows) |->
               [flows[i] EXCEPT !.cumulativeCashFlow = flows[i].totalCashFlow]])

GenerateCashFlows(params) ==
  LET years == IF "years" \in DOMAIN params THEN params.years
               ELSE DefaultYears
  IN  CashFlowLoop(params, IF years < 0 THEN 0 ELSE years).cashFlows

\* years: 10 passed by calculateRequiredReturnMetrics.
ProjectionYears == 10

CalculateRequiredReturnMetrics(params) ==
  Let(CalculateRequiredReturn(
        [marketPrice     |-> params.marketPrice,
         currentDividend |-> params.currentDividend,
         growthRate      |-> params.growthRate]), LAMBDA returnData :
  Let(GenerateCashFlows(
        [marketPrice       |-> params.marketPrice,
         currentDividend   |-> params.currentDividend,
         growthRateDecimal |-> returnData.growthRateDecimal,
         years             |-> ProjectionYears]), LAMBDA cashFlows :
    [x \in DOMAIN returnData \cup {"cashFlows"} |->
       IF x = "cashFlows" THEN cashFlows ELSE returnData[x]]))

\* CalculateGordonPrice that throws only when g > r and divides when g = r.
CalculateGordonPriceStrict(d1, r, g) ==
  IF Gt(g, r)
  THEN [threw |-> TRUE, message |-> "Growth rate must be less than required return"]
  ELSE [threw |-> FALSE, value |-> Div(d1, Add(r, Neg(g)))]

\* [threw |-> TRUE] stands for the Error thrown when g >= r.
CalculateGordonPrice(d1, r, g) ==
  IF Ge(g, r)
  THEN [threw |-> TRUE, message |-> "Growth rate must be less than required return"]
  ELSE [threw |-> FALSE, value |-> Div(d1, Add(r, Neg(g)))]

(***************************************************************************)
(* state.js (state module): the store                                      *)
(***************************************************************************)

\* The raw text each input element may be given by an input event.
RawInputs ==
  { <<>>, <<"a", "b", "c">>, <<"0">>, <<"2", "0">>, <<"6", "0", "0">> }

\* Callbacks that may be subscribed: the application's handleStateChange and
\* one more observer that only reads the state it is given.
Observers == {"handleStateChange", "observer"}

\* Most observers ever registered.
MaxListeners == 2

\* Most input / change events in one behaviour.
MaxEvents == 2

\* Granularity of the clock, in milliseconds.
TickMs == 150

VARIABLES
  phase,        \* "loaded": modules evaluated; "ready": init() has run
  state,        \* the singleton state object of state.js
  inputValue,   \* input.value of the three input elements
  timers,       \* pending setTimeout tasks: [id, field, remaining]
  timeout,      \* the `timeout` variable of each field's debounce closure
  nextTimerId,  \* the next id setTimeout returns
  sinceEvent,   \* ms since the last event on each field, up to DebounceWait
  burst,        \* events of each field's current uninterrupted burst, up to 2
  runs,         \* runs of each field's callback since its last event
  lastOp,       \* what the last handler did (its setState calls, outcome)
  call          \* the last direct call of an exported pure function

vars ==
  <<phase, state, inputValue, timers, timeout, nextTimerId, sinceEvent,
    burst, runs, lastOp, call>>

appVars ==
  <<phase, state, inputValue, timers, timeout, nextTimerId, sinceEvent,
    burst, runs, lastOp>>

\* const state = {...}
InitialState ==
  [marketPrice        |-> Num(5456, -2),
   currentDividend    |-> Num(510, -2),
   growthRate         |-> Num(640, -2),
   viewMode           |-> "chart",
   errors             |-> <<>>,
   returnCalculations |-> Null,
   listeners          |-> <<>>]

\* Object.assign(state, updates)
Assign(st, updates) ==
  [x \in DOMAIN st \cup DOMAIN updates |->
     IF x \in DOMAIN updates THEN updates[x] ELSE st[x]]

\* Whether the observer fn, called with newState, throws.  handleStateChange
\* returns before rendering when there is no result; otherwise it calls the
\* renderers, which throw when rendering is broken (renderFails).
ObserverThrows(fn, newState, renderFails) ==
  /\ fn = "handleStateChange"
  /\ newState.returnCalculations # Null
  /\ renderFails

\* state.listeners.forEach(fn => fn(state)) from the n-th listener on: the
\* calls made, in order, up to and including one that throws.
RECURSIVE Notify(_, _, _)
Notify(st, n, renderFails) ==
  IF n > Len(st.listeners) THEN <<>>
  ELSE LET fn == st.listeners[n]
       IN  IF ObserverThrows(fn, st, renderFails)
           THEN <<[fn |-> fn, arg |-> st, threw |-> TRUE]>>
           ELSE <<[fn |-> fn, arg |-> st, threw |-> FALSE]>>
                  \o Notify(st, n + 1, renderFails)

\* SetState notifying the observers before merging the updates.
SetStateNotifyFirst(st, updates, renderFails) ==
  Let(Assign(st, updates), LAMBDA merged :
  Let(Notify(st, 1, renderFails), LAMBDA notes :
    [state   |-> merged,
     before  |-> st,
     updates |-> updates,
     notes   |-> notes,
     threw   |-> notes # <<>> /\ notes[Len(notes)].threw]))

\* setState(updates): the state it leaves, the observer calls it made and
\* whether an observer's exception ended it.
SetState(st, updates, renderFails) ==
  Let(Assign(st, updates), LAMBDA merged :
  Let(Notify(merged, 1, renderFails), LAMBDA notes :
    [state   |-> merged,
     before  |-> st,
     updates |-> updates,
     notes   |-> notes,
     threw   |-> notes # <<>> /\ notes[Len(notes)].threw]))

\* SubscribeTo that ignores an observer already in the list.
SubscribeToOnce(st, fn) ==
  IF \E i \in 1..Len(st.listeners) : st.listeners[i] = fn THEN st
  ELSE [st EXCEPT !.listeners = Append(st.listeners, fn)]

\* subscribe(fn)
SubscribeTo(st, fn) == [st EXCEPT !.listeners = Append(st.listeners, fn)]

(***************************************************************************)
(* equation.js (main entry point): the update orchestrator                 *)
(***************************************************************************)

\* The arguments updateCalculations passes to calculateRequiredReturnMetrics.
CalculationParams(st) ==
  [marketPrice     |-> st.marketPrice,
   currentDividend |-> st.currentDividend,
   growthRate      |-> st.growthRate]

\* The branch of updateCalculations taken when the state holds errors.
ClearCalculations(st, renderFails) ==
  Let(SetState(st, [returnCalculations |-> Null], renderFails), LAMBDA r :
    [state |-> r.state, calls |-> <<r>>, computed |-> <<>>,
     caught |-> FALSE, threw |-> r.threw])

\* UpdateCalculations whose catch block logs and leaves the state alone.
UpdateCalculationsNoClear(st, renderFails) ==
  IF HasErrors(st.errors) THEN ClearCalculations(st, renderFails)
  ELSE Let(CalculationParams(st), LAMBDA params :
       Let(CalculateRequiredReturnMetrics(params), LAMBDA calculations :
       Let(SetState(st, [returnCalculations |-> calculations], renderFails),
           LAMBDA r :
         [state |-> r.state, calls |-> <<r>>, computed |-> <<params>>,
          caught |-> r.threw, threw |-> FALSE])))

\* updateCalculations(): the state it leaves, its setState calls, the
\* arguments of the calculation when it was attempted (computed), whether the
\* catch block ran and whether an exception left the function.
UpdateCalculations(st, renderFails) ==
  IF HasErrors(st.errors) THEN ClearCalculations(st, renderFails)
  ELSE Let(CalculationParams(st), LAMBDA params :
       Let(CalculateRequiredReturnMetrics(params), LAMBDA calculations :
       Let(SetState(st, [returnCalculations |-> calculations], renderFails),
           LAMBDA r :
         IF ~r.threw
         THEN [state |-> r.state, calls |-> <<r>>, computed |-> <<params>>,
               caught |-> FALSE, threw |-> FALSE]
         ELSE Let(SetState(r.state, [returnCalculations |-> Null],
                           renderFails), LAMBDA c :
                [state |-> c.state, calls |-> <<r, c>>,
                 computed |-> <<params>>, caught |-> TRUE,
                 threw |-> c.threw]))))

\* FieldErrors that never deletes a key.
FieldErrorsKeep(errors, field, error) ==
  IF error # Null THEN SetKey(errors, field, error) ELSE errors

\* errors[field] = error or delete errors[field], by the validation result.
FieldErrors(errors, field, error) ==
  IF error # Null THEN SetKey(errors, field, error)
  ELSE DeleteKey(errors, field)

\* DebouncedUpdate that starts from an empty errors mapping ({} for
\* {...state.errors}).
DebouncedUpdateOwnErrors(st, field, raw, renderFails) ==
  Let(ParseFloat(raw), LAMBDA value :
  Let(ValidateField(field, value), LAMBDA error :
  Let(FieldErrors(<<>>, field, error), LAMBDA errors :
  Let(SetState(st, SetKey([errors |-> errors], field, value), renderFails),
      LAMBDA r :
    IF r.threw
    THEN [state |-> r.state, calls |-> <<r>>, computed |-> <<>>,
          caught |-> FALSE, threw |-> TRUE]
    ELSE IF HasErrors(errors)
    THEN [state |-> r.state, calls |-> <<r>>, computed |-> <<>>,
          caught |-> FALSE, threw |-> FALSE]
    ELSE Let(UpdateCalculations(r.state, renderFails), LAMBDA u :
           [u EXCEPT !.calls = <<r>> \o u.calls])))))

\* DebouncedUpdate that calculates whatever the errors mapping holds.
DebouncedUpdateUnguarded(st, field, raw, renderFails) ==
  Let(ParseFloat(raw), LAMBDA value :
  Let(ValidateField(field, value), LAMBDA error :
  Let(FieldErrors(st.errors, field, error), LAMBDA errors :
  Let(SetState(st, SetKey([errors |-> errors], field, value), renderFails),
      LAMBDA r :
    IF r.threw
    THEN [state |-> r.state, calls |-> <<r>>, computed |-> <<>>,
          caught |-> FALSE, threw |-> TRUE]
    ELSE Let(CalculationParams(r.state), LAMBDA params :
         Let(SetState(r.state,
                      [returnCalculations |->
                         CalculateRequiredReturnMetrics(params)],
                      renderFails), LAMBDA c :
           [state |-> c.state, calls |-> <<r, c>>, computed |-> <<params>>,
            caught |-> FALSE, threw |-> c.threw]))))))

\* DebouncedUpdate that merges the field and never recalculates.
DebouncedUpdateNoRecalc(st, field, raw, renderFails) ==
  Let(ParseFloat(raw), LAMBDA value :
  Let(ValidateField(field, value), LAMBDA error :
  Let(FieldErrors(st.errors, field, error), LAMBDA errors :
  Let(SetState(st, SetKey([errors |-> errors], field, value), renderFails),
      LAMBDA r :
    [state |-> r.state, calls |-> <<r>>, computed |-> <<>>,
     caught |-> FALSE, threw |-> r.threw]))))

\* The callback the input listeners debounce, for one field.
DebouncedUpdate(st, field, raw, renderFails) ==
  Let(ParseFloat(raw), LAMBDA value :
  Let(ValidateField(field, value), LAMBDA error :
  Let(FieldErrors(st.errors, field, error), LAMBDA errors :
  Let(SetState(st, SetKey([errors |-> errors], field, value), renderFails),
      LAMBDA r :
    IF r.threw
    THEN [state |-> r.state, calls |-> <<r>>, computed |-> <<>>,
          caught |-> FALSE, threw |-> TRUE]
    ELSE IF HasErrors(errors)
    THEN [state |-> r.state, calls |-> <<r>>, computed |-> <<>>,
          caught |-> FALSE, threw |-> FALSE]
    ELSE Let(UpdateCalculations(r.state, renderFails), LAMBDA u :
           [u EXCEPT !.calls = <<r>> \o u.calls])))))

\* switchView(view), as far as the store is concerned.
SwitchViewTo(st, view, renderFails) ==
  Let(SetState(st, [viewMode |-> view], renderFails), LAMBDA r :
    [state |-> r.state, calls |-> <<r>>, computed |-> <<>>,
     caught |-> FALSE, threw |-> r.threw])

NoOp == [op |-> "none", field |-> "", calls |-> <<>>, computed |-> <<>>,
         caught |-> FALSE, threw |-> FALSE]

Done(name, field, res) ==
  [op |-> name, field |-> field, calls |-> res.calls,
   computed |-> res.computed, caught |-> res.caught, threw |-> res.threw]

NoCall == [fn |-> "none"]

Init ==
  /\ phase = "loaded"
  /\ state = InitialState
  /\ inputValue = [f \in Fields |-> <<>>]
  /\ timers = {}
  /\ timeout = [f \in Fields |-> 0]
  /\ nextTimerId = 1
  /\ sinceEvent = [f \in Fields |-> DebounceWait]
  /\ burst = [f \in Fields |-> 0]
  /\ runs = [f \in Fields |-> 0]
  /\ lastOp = NoOp
  /\ call = NoCall

\* init(): the input listeners are set up, handleResponsiveView switches a
\* narrow viewport showing the chart to the table, handleStateChange is
\* subscribed and the first calculation runs.
InitApp ==
  /\ phase = "loaded"
  /\ \E narrow \in BOOLEAN, renderFails \in BOOLEAN :
       \E v \in {IF narrow /\ state.viewMode = "chart"
                 THEN SwitchViewTo(state, "table", renderFails)
                 ELSE [state |-> state, calls |-> <<>>, threw |-> FALSE]} :
         \E u \in {IF v.threw
                   THEN [state |-> v.state, calls |-> <<>>, computed |-> <<>>,
                         caught |-> FALSE, threw |-> TRUE]
                   ELSE UpdateCalculations(
                          SubscribeTo(v.state, "handleStateChange"),
                          renderFails)} :
           /\ state' = u.state
           /\ lastOp' = Done("init", "",
                             [u EXCEPT !.calls = v.calls \o u.calls])
  /\ phase' = "ready"
  /\ UNCHANGED <<inputValue, timers, timeout, nextTimerId, sinceEvent, burst,
                 runs, call>>

\* subscribe(fn) called by any module.
Subscribe(fn) ==
  /\ Len(state.listeners) < MaxListeners
  /\ state' = SubscribeTo(state, fn)
  /\ lastOp' = [NoOp EXCEPT !.op = "subscribe", !.field = fn]
  /\ UNCHANGED <<phase, inputValue, timers, timeout, nextTimerId, sinceEvent,
                 burst, runs, call>>

\* A click on a view button, the skip link or a resize ends in switchView.
SwitchView(view) ==
  /\ phase = "ready"
  /\ \E renderFails \in BOOLEAN :
       \E r \in {SwitchViewTo(state, view, renderFails)} :
         /\ state' = r.state
         /\ lastOp' = Done("switchView", view, r)
  /\ UNCHANGED <<phase, inputValue, timers, timeout, nextTimerId, sinceEvent,
                 burst, runs, call>>

\* Debounced without the clearTimeout.
DebouncedNoClear(field) ==
  /\ timers' = timers \cup {[id |-> nextTimerId, field |-> field,
                             remaining |-> DebounceWait]}
  /\ timeout' = [timeout EXCEPT ![field] = nextTimerId]
  /\ nextTimerId' = nextTimerId + 1

\* The function debounce returns, called for an event on one field:
\* clearTimeout(timeout); timeout = setTimeout(..., wait).
Debounced(field) ==
  /\ timers' = {t \in timers : t.id # timeout[field]}
                 \cup {[id |-> nextTimerId, field |-> field,
                        remaining |-> DebounceWait]}
  /\ timeout' = [timeout EXCEPT ![field] = nextTimerId]
  /\ nextTimerId' = nextTimerId + 1

\* An input or change event on a field's input element whose text is raw.
InputEvent(field, raw) ==
  /\ phase = "ready"
  /\ nextTimerId <= MaxEvents
  /\ inputValue' = [inputValue EXCEPT ![field] = raw]
  /\ Debounced(field)
  /\ burst' = [burst EXCEPT ![field] =
                 IF runs[field] = 0 /\ sinceEvent[field] < DebounceWait
                 THEN IF @ < 2 THEN @ + 1 ELSE 2
                 ELSE 1]
  /\ sinceEvent' = [sinceEvent EXCEPT ![field] = 0]
  /\ runs' = [runs EXCEPT ![field] = 0]
  /\ lastOp' = [NoOp EXCEPT !.op = "input", !.field = field]
  /\ UNCHANGED <<phase, state, call>>

\* Tick under which no timer counts down.
TickNoCountdown ==
  /\ \/ \E t \in timers : t.remaining > 0
     \/ \E f \in Fields : sinceEvent[f] < DebounceWait
  /\ timers' = timers
  /\ sinceEvent' = [f \in Fields |->
                      IF sinceEvent[f] + TickMs < DebounceWait
                      THEN sinceEvent[f] + TickMs ELSE DebounceWait]
  /\ UNCHANGED <<phase, state, inputValue, timeout, nextTimerId, burst, runs,
                 lastOp, call>>

\* TickMs milliseconds pass.
Tick ==
  /\ \/ \E t \in timers : t.remaining > 0
     \/ \E f \in Fields : sinceEvent[f] < DebounceWait
  /\ timers' = {[t EXCEPT !.remaining = IF @ > TickMs THEN @ - TickMs ELSE 0] :
                  t \in timers}
  /\ sinceEvent' = [f \in Fields |->
                      IF sinceEvent[f] + TickMs < DebounceWait
                      THEN sinceEvent[f] + TickMs ELSE DebounceWait]
  /\ UNCHANGED <<phase, state, inputValue, timeout, nextTimerId, burst, runs,
                 lastOp, call>>

\* A due timer's task runs: the debounced callback of its field.
Fire(t) ==
  /\ t \in timers
  /\ t.remaining = 0
  /\ timers' = timers \ {t}
  /\ \E renderFails \in BOOLEAN :
       \E r \in {DebouncedUpdate(state, t.field, inputValue[t.field],
                                 renderFails)} :
         /\ state' = r.state
         /\ lastOp' = Done("fire", t.field, r)
  /\ runs' = [runs EXCEPT ![t.field] = IF @ < 2 THEN @ + 1 ELSE 2]
  /\ UNCHANGED <<phase, inputValue, timeout, nextTimerId, sinceEvent, burst,
                 call>>

Next ==
  \/ InitApp
  \/ \E view \in {"chart", "table"} : SwitchView(view)
  \/ \E f \in Fields, raw \in RawInputs : InputEvent(f, raw)
  \/ Tick
  \/ \E t \in timers : Fire(t)

\* The application: init(), then user events, timers and view switches.
Spec == Init /\ [][Next]_vars

\* A due timer leaves the set of timers: among the steps of Next, exactly
\* the steps of Fire.
TimerTask == \E t \in timers : t.remaining = 0 /\ timers' = timers \ {t}

\* The application under a fair timer: time keeps passing while a timer is
\* counting down, and the event loop runs the task of a timer that is due.
SpecLive ==
  /\ Init
  /\ [][Next]_vars
  /\ WF_vars(Tick)
  /\ WF_timers(TimerTask)

(***************************************************************************)
(* The store used directly by its clients: subscribe and setState          *)
(***************************************************************************)

\* Partial states a client may merge.
StoreUpdates ==
  { [x |-> 1],
    [viewMode |-> "table"],
    [viewMode |-> "chart", x |-> 2],
    [returnCalculations |-> Null],
    [returnCalculations |->
       CalculateRequiredReturnMetrics(
         [marketPrice |-> Num(50, 0), currentDividend |-> Num(2, 0),
          growthRate |-> Num(5, 0)])],
    [marketPrice |-> Num(50, 0), errors |-> <<>>] }

\* setState(updates) called by a client.
StoreSetState(updates) ==
  /\ \E renderFails \in BOOLEAN :
       \E r \in {SetState(state, updates, renderFails)} :
         /\ state' = r.state
         /\ lastOp' = [NoOp EXCEPT !.op = "setState", !.calls = <<r>>,
                                   !.threw = r.threw]
  /\ UNCHANGED <<phase, inputValue, timers, timeout, nextTimerId, sinceEvent,
                 burst, runs, call>>

NextStore ==
  \/ \E fn \in Observers : Subscribe(fn)
  \/ \E updates \in StoreUpdates : StoreSetState(updates)

SpecStore == Init /\ [][NextStore]_vars

(***************************************************************************)
(* The exported pure functions, each behaviour making one direct call      *)
(***************************************************************************)

\* Values given to validateField.
TestValues ==
  { Num(-1, 0), Zero, Num(99, -2), One, Num(101, -2), Num(2499, -2),
    Num(25, 0), Num(2501, -2), Num(50, 0), Num(5001, -2), Num(49999, -2),
    Num(500, 0), Num(50001, -2), Num(501, 0), NaN, Inf(1), Inf(-1),
    Null, Str("") }

\* Values of each field of the inputs given to validateAllInputs.
InputValues == { Zero, One, Num(600, 0), NaN, Null }

TestPrices ==
  { Zero, One, Num(50, 0), Num(100, 0), Num(5456, -2), Num(500, 0),
    Num(-50, 0) }

TestDividends ==
  { Zero, Num(2, 0), Num(3, 0), Num(51, -1), Num(50, 0), Num(1, -3),
    Num(1, -6), Num(-2, 0) }

TestGrowthRates ==
  { Zero, Num(5, 0), Num(8, 0), Num(64, -1), Num(25, 0), Num(-5, 0) }

\* Largest explicit `years` given to generateCashFlows.
MaxYears == 3

TestRaw ==
  { <<>>, <<"a", "b", "c">>, <<"1", "2", "a", "b">>, <<"0">>, <<"-", "3">>,
    <<"+", "7">>, <<".", "5">>, <<"5", ".">>, <<"-">>, <<".">>,
    <<"1", ".", "2", ".", "3">>, <<"5", "0", "0", ".", "0", "1">>,
    <<"0", ".", "0", "0">>, <<"a", "1">> }

CallParseFloat(raw) ==
  /\ call = NoCall
  /\ call' = [fn |-> "parseFloat", raw |-> raw, result |-> ParseFloat(raw)]
  /\ UNCHANGED appVars

CallValidateField(field, value) ==
  /\ call = NoCall
  /\ call' = [fn |-> "validateField", field |-> field, value |-> value,
              result |-> ValidateField(field, value)]
  /\ UNCHANGED appVars

CallValidateAllInputs(inputs) ==
  /\ call = NoCall
  /\ call' = [fn |-> "validateAllInputs", inputs |-> inputs,
              result |-> ValidateAllInputs(inputs)]
  /\ UNCHANGED appVars

CallCalculateRequiredReturn(params) ==
  /\ call = NoCall
  /\ call' = [fn |-> "calculateRequiredReturn", params |-> params,
              result |-> CalculateRequiredReturn(params)]
  /\ UNCHANGED appVars

CallGenerateCashFlows(params) ==
  /\ call = NoCall
  /\ call' = [fn |-> "generateCashFlows", params |-> params,
              result |-> GenerateCashFlows(params)]
  /\ UNCHANGED appVars

CallCalculateRequiredReturnMetrics(params) ==
  /\ call = NoCall
  /\ call' = [fn |-> "calculateRequiredReturnMetrics", params |-> params,
              result |-> CalculateRequiredReturnMetrics(params)]
  /\ UNCHANGED appVars

CallCalculateGordonPrice(d1, r, g) ==
  /\ call = NoCall
  /\ call' = [fn |-> "calculateGordonPrice", d1 |-> d1, r |-> r, g |-> g,
              result |-> CalculateGordonPrice(d1, r, g)]
  /\ UNCHANGED appVars

CashFlowParams ==
  { [marketPrice |-> p, currentDividend |-> d, growthRateDecimal |-> g] :
      p \in {Num(50, 0), Num(5456, -2)},
      d \in {Zero, Num(2, 0), Num(51, -1)},
      g \in {Zero, Num(5, -2), Num(64, -3), Num(25, -2), Num(-5, -1)} }

NextPure ==
  \/ \E raw \in TestRaw : CallParseFloat(raw)
  \/ \E field \in Fields \cup {"viewMode"}, value \in TestValues :
       CallValidateField(field, value)
  \/ \E inputs \in [Fields -> InputValues] : CallValidateAllInputs(inputs)
  \/ \E inputs \in [{"marketPrice"} -> InputValues] :
       CallValidateAllInputs(inputs)
  \/ \E p \in TestPrices, d \in TestDividends, g \in TestGrowthRates :
       CallCalculateRequiredReturn(
         [marketPrice |-> p, currentDividend |-> d, growthRate |-> g])
  \/ \E params \in CashFlowParams : CallGenerateCashFlows(params)
  \/ \E params \in CashFlowParams, years \in 0..MaxYears :
       CallGenerateCashFlows(
         [x \in DOMAIN params \cup {"years"} |->
            IF x = "years" THEN years ELSE params[x]])
  \/ \E p \in TestPrices, d \in TestDividends, g \in TestGrowthRates :
       CallCalculateRequiredReturnMetrics(
         [marketPrice |-> p, currentDividend |-> d, growthRate |-> g])
  \/ \E d1 \in {Zero, Num(21, -1)},
        r \in {Num(5, -2), Num(92, -3), Num(1124, -4)},
        g \in {Zero, Num(5, -2), Num(8, -2), Num(92, -3), Num(2, -1)} :
       CallCalculateGordonPrice(d1, r, g)

SpecPure == Init /\ [][NextPure]_vars

(***************************************************************************)
(* Properties                                                              *)
(***************************************************************************)

\* The inputs currently held in the state.
StateInputs ==
  [marketPrice     |-> state.marketPrice,
   currentDividend |-> state.currentDividend,
   growthRate      |-> state.growthRate]

\* The last step was a debounce fire whose callback returned normally.
FireCompleted == lastOp.op = "fire" /\ ~lastOp.threw

\* C1: after a completed debounce fire, a non-empty errors mapping implies
\* that returnCalculations is absent.
C1_ErrorsClearResult ==
  (FireCompleted /\ HasErrors(state.errors))
    => state.returnCalculations = Null

\* C2 as stated: after a completed debounce fire with an empty errors
\* mapping, returnCalculations is present and equals
\* calculateRequiredReturnMetrics of the inputs held in the state.
C2_FreshResultAlways ==
  (FireCompleted /\ ~HasErrors(state.errors))
    => /\ state.returnCalculations # Null
       /\ state.returnCalculations = CalculateRequiredReturnMetrics(StateInputs)

\* C2 amended: after a completed debounce fire with an empty errors mapping,
\* returnCalculations equals calculateRequiredReturnMetrics of the inputs
\* held in the state, unless an observer threw while being notified of that
\* result inside updateCalculations, in which case the catch block has left
\* returnCalculations absent.
C2_FreshResultUnlessCaught ==
  (FireCompleted /\ ~HasErrors(state.errors))
    => IF lastOp.caught
       THEN state.returnCalculations = Null
       ELSE state.returnCalculations = CalculateRequiredReturnMetrics(StateInputs)

\* A fire has completed for a typed market price of 20 with no errors and
\* the result in the state is the one of the new inputs.
C2_Witness ==
  /\ FireCompleted
  /\ ~lastOp.caught
  /\ lastOp.field = "marketPrice"
  /\ ~HasErrors(state.errors)
  /\ state.marketPrice = Num(20, 0)
  /\ state.returnCalculations # Null
  /\ state.returnCalculations.d1 = Mul(Num(510, -2), Add(One, Num(64, -3)))

\* C3: every setState call leaves the state with the given fields merged
\* (the others kept), and a call that returns has invoked every registered
\* observer once per registration, in registration order, each with the
\* state that already holds the merged fields.
C3_SetStateMergesThenNotifies ==
  \A i \in 1..Len(lastOp.calls) :
    LET c == lastOp.calls[i]
    IN  /\ DOMAIN c.state = DOMAIN c.before \cup DOMAIN c.updates
        /\ \A x \in DOMAIN c.updates : c.state[x] = c.updates[x]
        /\ \A x \in DOMAIN c.before \ DOMAIN c.updates :
             c.state[x] = c.before[x]
        /\ ~c.threw =>
             /\ Len(c.notes) = Len(c.before.listeners)
             /\ \A j \in 1..Len(c.notes) :
                  /\ c.notes[j].fn = c.before.listeners[j]
                  /\ DOMAIN c.updates \subseteq DOMAIN c.notes[j].arg
                  /\ \A x \in DOMAIN c.updates :
                       c.notes[j].arg[x] = c.updates[x]
                  /\ c.notes[j].arg = c.state
        /\ (i = Len(lastOp.calls) /\ lastOp.op = "setState") => state = c.state

\* setState({x: 1}) has returned after notifying two different observers.
C3_Witness ==
  /\ lastOp.op = "setState"
  /\ ~lastOp.threw
  /\ lastOp.calls[1].updates = [x |-> 1]
  /\ "x" \notin DOMAIN lastOp.calls[1].before
  /\ Len(lastOp.calls[1].notes) = 2
  /\ lastOp.calls[1].notes[1].fn = "observer"
  /\ lastOp.calls[1].notes[2].fn = "handleStateChange"
  /\ lastOp.calls[1].notes[2].arg.x = 1

PendingTimers(f) == {t \in timers : t.field = f}

\* C4: each field has at most one pending debounce timer; after an event on
\* a field its callback has either not run yet (the timer is pending) or run
\* exactly once, and a run comes no sooner than DebounceWait after the last
\* event, so a burst of events ends in one run after its last event.
C4_DebounceOncePerBurst ==
  \A f \in Fields :
    /\ Cardinality(PendingTimers(f)) <= 1
    /\ runs[f] <= 1
    /\ burst[f] >= 1 => Cardinality(PendingTimers(f)) + runs[f] = 1
    /\ runs[f] = 1 => sinceEvent[f] >= DebounceWait
    /\ \A t \in PendingTimers(f) : t.id = timeout[f]

\* Two events less than DebounceWait apart on one field, then one run.
C4_Witness ==
  \E f \in Fields :
    /\ burst[f] = 2
    /\ runs[f] = 1
    /\ PendingTimers(f) = {}
    /\ lastOp.op = "fire"
    /\ lastOp.field = f

\* C5: when the try block of updateCalculations throws, the catch block runs
\* setState({returnCalculations: null}), no exception leaves
\* updateCalculations and the state holds no result.
C5_FailureContained ==
  lastOp.caught =>
    LET c == lastOp.calls[Len(lastOp.calls)]
    IN  /\ ~lastOp.threw
        /\ state.returnCalculations = Null
        /\ c.updates = [returnCalculations |-> Null]
        /\ ~c.threw
        /\ Len(c.notes) = Len(state.listeners)
        /\ state = c.state
        /\ lastOp.computed # <<>>

\* A debounce fire whose updateCalculations caught an exception.
C5_Witness ==
  /\ lastOp.op = "fire"
  /\ lastOp.caught
  /\ ~HasErrors(state.errors)
  /\ Len(lastOp.calls) = 3
  /\ lastOp.calls[2].threw

\* The ranges the fields are declared with.
DeclaredRange ==
  [marketPrice     |-> <<Num(1, 0), Num(500, 0)>>,
   currentDividend |-> <<Zero, Num(50, 0)>>,
   growthRate      |-> <<Zero, Num(25, 0)>>]

\* C6: for a declared field and a numeric value v, validateField returns no
\* error iff min <= v <= max, bounds included.
C6_RangeInclusive ==
  (/\ call.fn = "validateField"
   /\ call.field \in Fields
   /\ IsNumber(call.value)
   /\ ~IsNaN(call.value))
    => (call.result = Null
          <=> /\ Le(DeclaredRange[call.field][1], call.value)
              /\ Le(call.value, DeclaredRange[call.field][2]))

\* validateField('marketPrice', 500) has returned no error.
C6_Witness ==
  /\ call.fn = "validateField"
  /\ call.field = "marketPrice"
  /\ call.value = Num(500, 0)
  /\ call.result = Null

InputOf(inputs, f) == IF f \in DOMAIN inputs THEN inputs[f] ELSE Null

Permutations3 ==
  {p \in [1..3 -> Fields] : \A i, j \in 1..3 : p[i] = p[j] => i = j}

\* C7: validateAllInputs returns the mapping whose keys are the declared
\* fields validateField rejects, each mapped to validateField's message; the
\* entry of a field is the same whatever the other fields hold and whatever
\* the order in which the fields are evaluated.
C7_ValidateAllIsPerField ==
  call.fn = "validateAllInputs" =>
    /\ DOMAIN call.result =
         {f \in Fields : ValidateField(f, InputOf(call.inputs, f)) # Null}
    /\ \A f \in DOMAIN call.result :
         call.result[f] = ValidateField(f, InputOf(call.inputs, f))
    /\ \A other \in [Fields -> InputValues], f \in Fields :
         InputOf(other, f) = InputOf(call.inputs, f) =>
           (f \in DOMAIN ValidateAllInputs(other) <=> f \in DOMAIN call.result)
    /\ \A p \in Permutations3 : ValidateKeys(p, call.inputs, 3) = call.result

\* validateAllInputs has rejected two fields and accepted the third.
C7_Witness ==
  /\ call.fn = "validateAllInputs"
  /\ DOMAIN call.result = {"currentDividend", "growthRate"}
  /\ call.inputs.marketPrice = One
  /\ call.result.growthRate = Str("Growth rate must be between 0% and 25%")
  /\ call.result.currentDividend = Str("Current dividend is required")

\* |x - y| <= tol
Within(x, y, tol) ==
  /\ Le(Add(x, Neg(y)), tol)
  /\ Le(Add(y, Neg(x)), tol)

Triple(p, d, g) ==
  [marketPrice |-> Num(p, 0), currentDividend |-> Num(d, 0),
   growthRate |-> Num(g, 0)]

\* C8: calculateRequiredReturn returns g = growthRate / 100,
\* d1 = currentDividend * (1 + g), dividendYield = d1 / marketPrice and
\* requiredReturn = dividendYield + g, the last two both as decimals and
\* multiplied by 100; (50, 2, 5) gives 9.2 and (100, 3, 8) gives 11.24,
\* within 0.1.
C8_Formula ==
  call.fn = "calculateRequiredReturn" =>
    LET g  == Div(call.params.growthRate, Hundred)
        d1 == Mul(call.params.currentDividend, Add(One, g))
        y  == Div(d1, call.params.marketPrice)
        r  == Add(y, g)
    IN  /\ call.result.growthRateDecimal = g
        /\ call.result.d1 = d1
        /\ call.result.dividendYieldDecimal = y
        /\ call.result.requiredReturnDecimal = r
        /\ call.result.dividendYield = Mul(y, Hundred)
        /\ call.result.requiredReturn = Mul(r, Hundred)
        /\ call.params = Triple(50, 2, 5) =>
             Within(call.result.requiredReturn, Num(92, -1), Num(1, -1))
        /\ call.params = Triple(100, 3, 8) =>
             Within(call.result.requiredReturn, Num(1124, -2), Num(1, -1))

\* calculateRequiredReturn of (100, 3, 8) has returned about 11.24 percent.
C8_Witness ==
  /\ call.fn = "calculateRequiredReturn"
  /\ call.params = Triple(100, 3, 8)
  /\ Within(call.result.requiredReturn, Num(1124, -2), Num(1, -2))
  /\ Within(call.result.dividendYield, Num(324, -2), Num(1, -2))

\* C9: the isValid flag of calculateRequiredReturn is true iff
\* requiredReturnDecimal > 0 and growthRateDecimal < requiredReturnDecimal,
\* and false whenever growthRateDecimal >= requiredReturnDecimal.
C9_IsValid ==
  call.fn = "calculateRequiredReturn" =>
    LET r == call.result.requiredReturnDecimal
        g == call.result.growthRateDecimal
    IN  /\ call.result.isValid <=> (Gt(r, Zero) /\ Lt(g, r))
        /\ Ge(g, r) => ~call.result.isValid

\* A positive required return equal to the growth rate (no dividend) has
\* been flagged invalid.
C9_Witness ==
  /\ call.fn = "calculateRequiredReturn"
  /\ call.params = Triple(50, 0, 5)
  /\ call.result.requiredReturnDecimal = call.result.growthRateDecimal
  /\ Gt(call.result.requiredReturnDecimal, Zero)
  /\ ~call.result.isValid

\* The sum of seq[1][key] .. seq[n][key], added in index order from 0.
RECURSIVE SumOver(_, _, _)
SumOver(seq, key, n) ==
  IF n = 0 THEN Zero ELSE Add(SumOver(seq, key, n - 1), seq[n][key])

\* C10: in the sequence generateCashFlows returns, the cumulativeCashFlow of
\* every point equals the sum of totalCashFlow over the points up to it.
C10_CumulativeIsRunningSum ==
  call.fn = "generateCashFlows" =>
    \A n \in 1..Len(call.result) :
      call.result[n].cumulativeCashFlow =
        SumOver(call.result, "totalCashFlow", n)

\* A default ten-year projection with growing dividends has been generated.
C10_Witness ==
  /\ call.fn = "generateCashFlows"
  /\ "years" \notin DOMAIN call.params
  /\ Len(call.result) > 10
  /\ call.params.currentDividend = Num(51, -1)
  /\ call.params.growthRateDecimal = Num(64, -3)
  /\ Gt(call.result[11].cumulativeCashFlow, call.result[11].totalCashFlow)

\* The `years` a call of generateCashFlows runs with.
YearsOf(params) ==
  IF "years" \in DOMAIN params THEN params.years ELSE DefaultYears

\* C11: generateCashFlows called with years (10 when none is given) returns
\* years + 1 points whose year fields are 0, 1, ..., years in that order;
\* the cashFlows of calculateRequiredReturnMetrics are the 11 points of
\* years 0 to 10.
C11_YearsPlusOnePoints ==
  /\ call.fn = "generateCashFlows" =>
       /\ Len(call.result) = YearsOf(call.params) + 1
       /\ \A i \in 1..Len(call.result) : call.result[i].year = i - 1
  /\ call.fn = "calculateRequiredReturnMetrics" =>
       /\ Len(call.result.cashFlows) = 11
       /\ \A i \in 1..11 : call.result.cashFlows[i].year = i - 1

\* generateCashFlows was called without years and returned 11 points, the
\* last one of year 10.
C11_Witness ==
  /\ call.fn = "generateCashFlows"
  /\ "years" \notin DOMAIN call.params
  /\ Len(call.result) = 11
  /\ call.result[11].year = 10

\* C12: calculateGordonPrice(d1, r, g) throws whenever g >= r, returning no
\* price, and returns d1 / (r - g) when g < r.
C12_GordonPriceThrows ==
  call.fn = "calculateGordonPrice" =>
    /\ Ge(call.g, call.r) =>
         call.result.threw /\ "value" \notin DOMAIN call.result
    /\ Lt(call.g, call.r) =>
         /\ ~call.result.threw
         /\ call.result.value = Div(call.d1, Add(call.r, Neg(call.g)))
    /\ (call.d1 = Num(21, -1) /\ call.r = Num(92, -3) /\ call.g = Num(5, -2))
         => call.result = [threw |-> FALSE, value |-> Num(50, 0)]

\* calculateGordonPrice was called with g = r and threw.
C12_Witness ==
  /\ call.fn = "calculateGordonPrice"
  /\ call.g = call.r
  /\ call.d1 = Num(21, -1)
  /\ call.result.threw

\* C18: in the result of calculateRequiredReturnMetrics the dividend of the
\* year-1 cash-flow point equals the d1 field.
C18_YearOneDividendIsD1 ==
  call.fn = "calculateRequiredReturnMetrics" =>
    /\ call.result.cashFlows[2].year = 1
    /\ call.result.cashFlows[2].dividend = call.result.d1

\* calculateRequiredReturnMetrics was called with (50, 2, 5): d1 and the
\* year-1 dividend are both 2.1.
C18_Witness ==
  /\ call.fn = "calculateRequiredReturnMetrics"
  /\ call.params = [marketPrice |-> Num(50, 0), currentDividend |-> Num(2, 0),
                    growthRate |-> Num(5, 0)]
  /\ call.result.d1 = Num(21, -1)
  /\ call.result.cashFlows[2].dividend = Num(21, -1)

IsPrefix(a, b) == Len(a) <= Len(b) /\ SubSeq(b, 1, Len(a)) = a

\* Number of registrations of fn in the observer list.
Registrations(listeners, fn) ==
  Cardinality({i \in 1..Len(listeners) : listeners[i] = fn})

\* Number of invocations of fn among the observer calls of one setState.
Invocations(notes, fn) ==
  Cardinality({j \in 1..Len(notes) : notes[j].fn = fn})

\* One step of the store: the observer list only grows, subscribe appends
\* its argument, and a setState (one that returned, when returnedOnly)
\* invokes each observer as many times as it is registered.
StoreStep(returnedOnly) ==
  /\ IsPrefix(state.listeners, state'.listeners)
  /\ lastOp'.op = "subscribe" =>
       state'.listeners = Append(state.listeners, lastOp'.field)
  /\ (lastOp'.op = "setState" /\ (returnedOnly => ~lastOp'.threw)) =>
       \A fn \in Observers :
         Invocations(lastOp'.calls[1].notes, fn)
           = Registrations(state.listeners, fn)

ResultCalls ==
  {i \in 1..Len(lastOp.calls) :
     /\ "returnCalculations" \in DOMAIN lastOp.calls[i].updates
     /\ lastOp.calls[i].updates.returnCalculations # Null}

\* C14: the update orchestrator invokes calculateRequiredReturnMetrics only
\* in a state whose errors mapping is empty; with a non-empty errors mapping
\* the calculation is never attempted.
C14_CalculationOnlyWithoutErrors ==
  /\ \A i \in ResultCalls : ~HasErrors(lastOp.calls[i].before.errors)
  /\ lastOp.computed # <<>> =>
       \E i \in ResultCalls :
         /\ lastOp.computed[1] = CalculationParams(lastOp.calls[i].before)
         /\ lastOp.calls[i].updates.returnCalculations
              = CalculateRequiredReturnMetrics(lastOp.computed[1])
  /\ (lastOp.op = "fire" /\ HasErrors(state.errors)) => lastOp.computed = <<>>

\* A fire on the current dividend has invoked the calculation in a state
\* with an empty errors mapping.
C14_Witness ==
  /\ lastOp.op = "fire"
  /\ lastOp.field = "currentDividend"
  /\ lastOp.computed # <<>>
  /\ ResultCalls = {2}
  /\ lastOp.calls[2].before.errors = <<>>
  /\ lastOp.calls[2].before.currentDividend = Num(20, 0)

\* v is a number within the declared range of field f, bounds included.
InDeclaredRange(f, v) ==
  /\ IsNumber(v)
  /\ Ge(v, DeclaredRange[f][1])
  /\ Le(v, DeclaredRange[f][2])

\* C15: whenever the orchestrator invokes the calculation, the marketPrice
\* it passes lies in [1, 500], the currentDividend in [0, 50] and the
\* growthRate in [0, 25].
C15_CalculationInputsInRange ==
  lastOp.computed # <<>> =>
    /\ \A f \in Fields : InDeclaredRange(f, lastOp.computed[1][f])
    /\ Gt(lastOp.computed[1].marketPrice, Zero)

\* A fire has invoked the calculation with the growth rate at its lower
\* bound 0.
C15_Witness ==
  /\ lastOp.op = "fire"
  /\ lastOp.field = "growthRate"
  /\ lastOp.computed # <<>>
  /\ lastOp.computed[1].growthRate = Zero
  /\ lastOp.computed[1].marketPrice = Num(5456, -2)

\* The step is a debounce fire: a timer has left the pending timers.
IsFireStep ==
  /\ lastOp'.op = "fire"
  /\ Cardinality(timers') < Cardinality(timers)

\* The frame of a debounce fire on field f with parsed value v.
FireFrame(f, v) ==
  /\ state'[f] = v
  /\ (f \in DOMAIN state'.errors) <=> (ValidateField(f, v) # Null)
  /\ \A g \in Fields \ {f} :
       /\ state'[g] = state[g]
       /\ (g \in DOMAIN state'.errors) <=> (g \in DOMAIN state.errors)
       /\ g \in DOMAIN state.errors => state'.errors[g] = state.errors[g]
       /\ {t \in timers' : t.field = g} = {t \in timers : t.field = g}
  /\ state'.viewMode = state.viewMode
  /\ state'.listeners = state.listeners

\* C16: a debounce fire for field f with parsed value v sets state[f] = v and
\* makes errors contain key f iff validateField(f, v) returns an error; the
\* values and error entries of the other two fields, the viewMode, the
\* observer list and the pending timers of the other fields are unchanged.
C16_FireFrame ==
  [][IsFireStep =>
       FireFrame(lastOp'.field, ParseFloat(inputValue[lastOp'.field]))]_vars

\* A fire on the growth rate has merged 20 while the market price keeps its
\* error entry and its invalid value 0.
C16_Witness ==
  /\ lastOp.op = "fire"
  /\ lastOp.field = "growthRate"
  /\ state.growthRate = Num(20, 0)
  /\ state.marketPrice = Zero
  /\ DOMAIN state.errors = {"marketPrice"}

\* C17: when the raw value of a field parses to NaN, the debounce fire
\* records the 'is required' message for that field, not the range message,
\* and attempts no calculation.
C17_NaNIsRequired ==
  (lastOp.op = "fire" /\ IsNaN(ParseFloat(inputValue[lastOp.field]))) =>
    /\ lastOp.field \in DOMAIN state.errors
    /\ state.errors[lastOp.field]
         = RequiredMessage(VALIDATION_RULES[lastOp.field])
    /\ state.errors[lastOp.field]
         # RangeMessage(VALIDATION_RULES[lastOp.field])
    /\ lastOp.computed = <<>>

\* A fire on the growth rate whose text is "abc" has recorded 'Growth rate
\* is required'.
C17_Witness ==
  /\ lastOp.op = "fire"
  /\ lastOp.field = "growthRate"
  /\ inputValue.growthRate = <<"a", "b", "c">>
  /\ IsNaN(state.growthRate)
  /\ state.errors.growthRate = Str("Growth rate is required")
  /\ lastOp.computed = <<>>

\* C20: in the initial state and after every completed debounce fire,
\* state.errors equals validateAllInputs of the inputs held in the state.
C20_ErrorsMatchInputs ==
  (lastOp.op \in {"none", "init"} \/ FireCompleted) =>
    /\ state.errors = ValidateAllInputs(StateInputs)
    /\ \A f \in Fields :
         (f \in DOMAIN state.errors) <=> (ValidateField(f, state[f]) # Null)

\* Fires on two different fields have completed and both fields are in
\* error.
C20_Witness ==
  /\ FireCompleted
  /\ lastOp.field = "currentDividend"
  /\ DOMAIN state.errors = {"marketPrice", "currentDividend"}
  /\ state.errors = ValidateAllInputs(StateInputs)

\* Field f has no pending timer, its callback has run since its last input
\* event and the state holds the value last entered in it.
Settled(f) ==
  /\ PendingTimers(f) = {}
  /\ runs[f] = 1
  /\ state[f] = ParseFloat(inputValue[f])

\* C19: under a fair timer, a field with a pending debounce timer
\* eventually has none, its callback having fired once after the last input
\* event and merged the last value entered into the state.
C19_PendingFieldSettles ==
  \A f \in Fields : (PendingTimers(f) # {}) ~> Settled(f)

\* The market price has settled on the invalid value 600 after two input
\* events on it: its timer has fired once and none is pending.
C19_Witness ==
  /\ Settled("marketPrice")
  /\ burst.marketPrice = 2
  /\ inputValue.marketPrice = <<"6", "0", "0">>
  /\ "marketPrice" \in DOMAIN state.errors

\* The states handed to the observers by the setState calls of the last
\* operation.
NotifiedStates ==
  UNION {{lastOp.calls[i].notes[j].arg : j \in 1..Len(lastOp.calls[i].notes)} :
           i \in 1..Len(lastOp.calls)}

\* C21: in every observer notification in which returnCalculations is
\* present, it equals calculateRequiredReturnMetrics of the marketPrice,
\* currentDividend and growthRate of the notified state.
C21_NotifiedResultMatchesInputs ==
  \A a \in NotifiedStates :
    a.returnCalculations # Null =>
      a.returnCalculations
        = CalculateRequiredReturnMetrics(CalculationParams(a))

\* calculateRequiredReturn was called with a triple the validator accepts.
ValidatedCall ==
  /\ call.fn = "calculateRequiredReturn"
  /\ \A f \in Fields : InDeclaredRange(f, call.params[f])

====
